---- MODULE Spec2Model ----
(***************************************************************************)
(* Model of remove_duplicates.py: two directory trees (the albums tree is  *)
(* the reference, the photos tree is the candidate) are grouped by title,  *)
(* find_duplicates selects the photos-tree files that duplicate an albums  *)
(* file, and remove_duplicates deletes the selected paths one by one.      *)
(***************************************************************************)
EXTENDS Integers, Sequences, FiniteSets, TLC

\* ------------------------------------------------------------------ bounds
\* Largest number of media files in the albums (reference) tree.
MaxAlbumFiles == 2
\* Largest number of media files in the photos (candidate) tree.
MaxPhotoFiles == 2
\* Largest number of paths on which os.remove is refused (permission).
MaxDenied == 1

\* ------------------------------------------------------- Python values
\* Python's None, the empty string "" and an int: == between them is
\* equality of these records ("" == "" and None == None are True,
\* "" == None is False).
None == [py |-> "None", v |-> 0]
EmptyStr == [py |-> "str", v |-> 0]
PyInt(n) == [py |-> "int", v |-> n]

\* A dictionary key of name_to_files: a string, or None.
NoneKey == [py |-> "None", s |-> ""]
PyStr(s) == [py |-> "str", s |-> s]

\* str.lower() on the names the model uses.
Lower(s) ==
  CASE s = "A" -> "a"
    [] s = "B" -> "b"
    [] s = "P" -> "p"
    [] s = ".JPG" -> ".jpg"
    [] OTHER -> s

\* ------------------------------------------------------------ file system
\* The two configured directories (disjoint siblings).
albums_directory == "Albums"
photos_directory == "GooglePhotos"

\* A path: the i-th media file of a tree's walk, or the sidecar found for it.
\* EmptyPath is the string "" (no path of any file).
MediaPath(tree, i) == [tree |-> tree, idx |-> i, kind |-> "media"]
JsonPath(tree, i) == [tree |-> tree, idx |-> i, kind |-> "json"]
EmptyPath == [tree |-> "", idx |-> 0, kind |-> ""]

\* Content of a sidecar: text that json.load rejects, or an object that may
\* have "title" and may have "photoTakenTime", itself with or without
\* "timestamp".
NoSidecar == [found |-> FALSE, parses |-> FALSE, has_title |-> FALSE, title |-> "",
              has_ptt |-> FALSE, has_timestamp |-> FALSE, timestamp |-> 0]
Unparsable == [found |-> TRUE, parses |-> FALSE, has_title |-> FALSE, title |-> "",
               has_ptt |-> FALSE, has_timestamp |-> FALSE, timestamp |-> 0]
JsonObject(ht, t, hp, hts, ts) ==
  [found |-> TRUE, parses |-> TRUE, has_title |-> ht, title |-> t,
   has_ptt |-> hp, has_timestamp |-> hts, timestamp |-> ts]

Sidecars ==
  { JsonObject(TRUE, "A", TRUE, TRUE, 100),
    JsonObject(TRUE, "A", TRUE, TRUE, 200),
    JsonObject(TRUE, "A", FALSE, FALSE, 0),
    JsonObject(FALSE, "", TRUE, TRUE, 100),
    JsonObject(TRUE, "A", TRUE, FALSE, 0),
    Unparsable }

\* A media file of a tree: its name without extension and the sidecar that
\* lies beside it (if any).
MediaFiles ==
  [name : {"a", "B"}, sidecar : {NoSidecar}] \cup [name : {"a"}, sidecar : Sidecars]

SeqUpTo(S, n) == UNION { [1..k -> S] : k \in 0..n }

\* The paths that exist when a tree holds the files fs (in walk order).
TreePaths(tree, files) ==
  { MediaPath(tree, i) : i \in 1..Len(files) }
    \cup { JsonPath(tree, i) : i \in { j \in 1..Len(files) : files[j].sidecar.found } }

\* os.walk(directory): the media files of the tree in walk order; a root
\* that does not exist yields nothing (os.walk swallows the listing error).
os_walk(directory, files, missing) ==
  IF directory \in missing THEN <<>> ELSE files

\* ----------------------------------------------------- descriptor lookup
\* find_metadata_file: the path of the sidecar the directory scan matches
\* for the i-th media file of the tree, or nothing.
find_metadata_file(tree, i, files) ==
  IF files[i].sidecar.found
    THEN [found |-> TRUE, path |-> JsonPath(tree, i)]
    ELSE [found |-> FALSE, path |-> EmptyPath]

\* load_metadata: None when no sidecar is found or it does not exist;
\* otherwise json.load, whose exception is not caught.
load_metadata(tree, i, files, fsys) ==
  LET metadata_file == find_metadata_file(tree, i, files) IN
    IF metadata_file.found /\ metadata_file.path \in fsys
      THEN IF files[i].sidecar.parses
             THEN [result |-> "dict", path |-> metadata_file.path, data |-> files[i].sidecar]
             ELSE [result |-> "raise", path |-> metadata_file.path, data |-> files[i].sidecar]
      ELSE [result |-> "None", path |-> EmptyPath, data |-> NoSidecar]

\* get_photo_taken_time: metadata["photoTakenTime"]["timestamp"], a KeyError
\* when photoTakenTime has no timestamp, None without photoTakenTime.
get_photo_taken_time(metadata) ==
  IF metadata.has_ptt
    THEN IF metadata.has_timestamp
           THEN [raise |-> FALSE, value |-> PyInt(metadata.timestamp)]
           ELSE [raise |-> TRUE, value |-> None]
    ELSE [raise |-> FALSE, value |-> None]

\* get_title: the lower-cased title, None without a title.
get_title(metadata) ==
  IF metadata.has_title THEN PyStr(Lower(metadata.title)) ELSE NoneKey

\* The record built for the i-th media file (lines 98-113), or the exception
\* raised while building it.
MediaObj(tree, i, files, fsys) ==
  LET base_name     == PyStr(Lower(files[i].name))
      metadata_file == load_metadata(tree, i, files, fsys)
      ptt           == get_photo_taken_time(metadata_file.data)
  IN  IF metadata_file.result = "raise" THEN [raise |-> TRUE]
      ELSE IF metadata_file.result = "dict"
        THEN IF ptt.raise THEN [raise |-> TRUE]
             ELSE [raise |-> FALSE,
                   title |-> get_title(metadata_file.data),
                   base_name |-> files[i].name,
                   photo_taken_time |-> ptt.value,
                   file_path |-> MediaPath(tree, i),
                   json_path |-> metadata_file.path]
        ELSE [raise |-> FALSE,
              title |-> base_name,
              base_name |-> files[i].name,
              photo_taken_time |-> EmptyStr,
              file_path |-> MediaPath(tree, i),
              json_path |-> EmptyPath]

\* group_files_by_name_and_metadata: the records of the tree's media files
\* in walk order, each filed under its title; the first exception ends it.
\* The dictionary name_to_files is read off the record list by KeysOf
\* (insertion order of the keys) and FilesOf (the list of one key).
group_files_by_name_and_metadata(tree, files, fsys) ==
  LET objs == [i \in 1..Len(files) |-> MediaObj(tree, i, files, fsys)] IN
    IF \E i \in 1..Len(files) : objs[i].raise
      THEN [raise |-> TRUE, objs |-> <<>>]
      ELSE [raise |-> FALSE, objs |-> objs]

\* name_to_files[title]: the records filed under title, in walk order.
FilesOf(objs, title) == SelectSeq(objs, LAMBDA o : o.title = title)

\* "title in name_to_files".
HasKey(objs, title) == \E i \in 1..Len(objs) : objs[i].title = title

\* name_to_files.items() order: keys in order of first insertion.
RECURSIVE KeysOf(_)
KeysOf(objs) ==
  IF objs = <<>> THEN <<>>
  ELSE LET front == KeysOf(SubSeq(objs, 1, Len(objs) - 1))
           k     == objs[Len(objs)].title
       IN  IF \E j \in 1..Len(front) : front[j] = k THEN front ELSE Append(front, k)

\* ------------------------------------------------------- find_duplicates
\* Mutant of Mark: the album file's paths appended instead of the photo's.
Mark_AlbumPaths(alb, gp) ==
  [ref |-> alb.file_path, cand |-> alb.file_path, json |-> alb.json_path]

\* One "Duplicate found: ref -> cand" event: the two appends to duplicates,
\* the increment of count_media and the log line.
Mark(alb, gp) == [ref |-> alb.file_path, cand |-> gp.file_path, json |-> gp.json_path]

RECURSIVE Concat(_)
Concat(seqs) ==
  IF seqs = <<>> THEN <<>> ELSE Head(seqs) \o Concat(Tail(seqs))

\* Mutant of MarksOneOne: the 1:1 case compares the timestamps too.
MarksOneOne_TimestampChecked(photos_files, album_files) ==
  IF album_files[1].photo_taken_time = photos_files[1].photo_taken_time
    THEN << [ref |-> album_files[1].file_path, cand |-> photos_files[1].file_path,
             json |-> photos_files[1].json_path] >>
    ELSE <<>>

\* len(photos_files) == 1 and len(album_files) == 1: unconditional.
MarksOneOne(photos_files, album_files) ==
  << Mark(album_files[1], photos_files[1]) >>

\* len(photos_files) > 1 and len(album_files) == 1: every gp whose
\* photo_taken_time == that of album_files[0].
MarksManyOne(photos_files, album_files) ==
  Concat([i \in 1..Len(photos_files) |->
            IF album_files[1].photo_taken_time = photos_files[i].photo_taken_time
              THEN << Mark(album_files[1], photos_files[i]) >>
              ELSE <<>>])

\* Mutant of MarksOneMany: only album_files[0] is compared.
MarksOneMany_FirstOnly(photos_files, album_files) ==
  IF photos_files[1].photo_taken_time = album_files[1].photo_taken_time
    THEN << [ref |-> album_files[1].file_path, cand |-> photos_files[1].file_path,
             json |-> photos_files[1].json_path] >>
    ELSE <<>>

\* len(photos_files) == 1 and len(album_files) > 1: one event for every alb
\* whose photo_taken_time == that of photos_files[0] (no break).
MarksOneMany(photos_files, album_files) ==
  Concat([j \in 1..Len(album_files) |->
            IF photos_files[1].photo_taken_time = album_files[j].photo_taken_time
              THEN << Mark(album_files[j], photos_files[1]) >>
              ELSE <<>>])

\* Mutant of MarksManyMany: the inner loop has no break.
MarksManyMany_NoBreak(photos_files, album_files) ==
  Concat([i \in 1..Len(photos_files) |->
            Concat([j \in 1..Len(album_files) |->
                      IF photos_files[i].photo_taken_time = album_files[j].photo_taken_time
                        THEN << [ref |-> album_files[j].file_path,
                                 cand |-> photos_files[i].file_path,
                                 json |-> photos_files[i].json_path] >>
                        ELSE <<>>])])

\* len(photos_files) > 1 and len(album_files) > 1: for every gp the first alb
\* in list order with the same photo_taken_time, then break.
MarksManyMany(photos_files, album_files) ==
  Concat([i \in 1..Len(photos_files) |->
            LET hits == { j \in 1..Len(album_files) :
                            photos_files[i].photo_taken_time = album_files[j].photo_taken_time }
            IN  IF hits = {} THEN <<>>
                ELSE << Mark(album_files[CHOOSE j \in hits : \A k \in hits : j <= k],
                             photos_files[i]) >>])

\* The body of "if title in albums_name_to_files" for one title.
MarksForTitle(photos_files, album_files) ==
  IF Len(photos_files) = 1 /\ Len(album_files) = 1
    THEN MarksOneOne(photos_files, album_files)
  ELSE IF Len(photos_files) > 1 /\ Len(album_files) = 1
    THEN MarksManyOne(photos_files, album_files)
  ELSE IF Len(photos_files) = 1 /\ Len(album_files) > 1
    THEN MarksOneMany(photos_files, album_files)
  ELSE IF Len(photos_files) > 1 /\ Len(album_files) > 1
    THEN MarksManyMany(photos_files, album_files)
  ELSE <<>>

\* Mutant of MatchAll: no "if title in albums_name_to_files"; a title the
\* albums grouping lacks is compared with the photos grouping itself.
MatchAll_NoKeyTest(albums_objs, photos_objs) ==
  LET titles == KeysOf(photos_objs) IN
    Concat([n \in 1..Len(titles) |->
              MarksForTitle(FilesOf(photos_objs, titles[n]),
                            IF HasKey(albums_objs, titles[n])
                              THEN FilesOf(albums_objs, titles[n])
                              ELSE FilesOf(photos_objs, titles[n]))])

\* The loop over photos_name_to_files.items(): the events in program order.
MatchAll(albums_objs, photos_objs) ==
  LET titles == KeysOf(photos_objs) IN
    Concat([n \in 1..Len(titles) |->
              IF HasKey(albums_objs, titles[n])
                THEN MarksForTitle(FilesOf(photos_objs, titles[n]),
                                   FilesOf(albums_objs, titles[n]))
                ELSE <<>>])

\* The list duplicates before list(set(...)): file_path then json_path of
\* every event.
Appended(ms) == Concat([n \in 1..Len(ms) |-> << ms[n].cand, ms[n].json >>])

\* list(set(duplicates)): the distinct entries (in no particular order).
Dedup(list) == { list[n] : n \in 1..Len(list) }

\* How often entry p occurs in a list.
Occurrences(list, p) == Cardinality({ n \in 1..Len(list) : list[n] = p })

\* Mutant of ReturnedList: the list is returned without list(set(...)).
ReturnedList_NoSet(list) == [p \in Dedup(list) |-> Occurrences(list, p)]

\* list(set(duplicates)) as a list: how often each entry occurs in the list
\* that find_duplicates returns (a set holds each entry once).
ReturnedList(list) == [p \in Dedup(list) |-> 1]

\* ------------------------------------------------------ remove_duplicates
\* os.remove(file_path): the outcomes the file system allows. A path that
\* does not exist (the empty string included) is a FileNotFoundError; a path
\* found undeletable stays undeletable (nothing else touches the trees
\* during a run); any other existing path is removed or found undeletable.
os_remove(file_path, fsys, den) ==
  IF file_path \notin fsys THEN {"not_found"}
  ELSE IF file_path \in den THEN {"denied"}
  ELSE {"removed"} \cup (IF Cardinality(den) < MaxDenied THEN {"denied"} ELSE {})

\* Mutant of AfterRemove: a failed os.remove is not caught.
AfterRemove_Uncaught(result) == IF result = "removed" THEN "removing" ELSE "raised"

\* Mutant of AfterRemove: only a permission error is caught.
AfterRemove_NotFoundUncaught(result) ==
  IF result = "not_found" THEN "raised" ELSE "removing"

\* Where the loop stands after one os.remove: IOError/OSError is caught and
\* logged inside the loop body, so the loop goes on.
AfterRemove(result) == "removing"

\* ------------------------------------------------------------------ state
VARIABLES
  albums_tree,            \* what the walk of albums_directory reads: the media
                          \* files in walk order, each with its sidecar
  photos_tree,            \* the same for photos_directory
  missing_roots,          \* the configured directories that do not exist
  fs,                     \* paths that exist
  pc,                     \* "start", "matched", "removing", "done", "raised"
  albums_name_to_files,   \* find_duplicates' local: grouping of the albums tree
  photos_name_to_files,   \* find_duplicates' local: grouping of the photos tree
  count_media,            \* find_duplicates' local counter
  marks,                  \* the "Duplicate found" lines logged, in order
  duplicates,             \* the entries of the list find_duplicates returns
  returned,               \* occurrences of each entry in that list
  todo,                   \* entries of duplicates the loop has not reached
  attempts,               \* os.remove calls per path in the current call
  outcome,                \* result of the os.remove call per path
  denied,                 \* paths found undeletable
  pass,                   \* which call of remove_duplicates is running
  fs_first,               \* fs when the first call returned
  lookup,                 \* one call of find_metadata_file: its media file,
                          \* the directory listing and the result
  writer                  \* one file of merge_metadata's loop: the file, its
                          \* descriptor, the directory timestamp, the result

vars == << albums_tree, photos_tree, missing_roots, fs, pc, albums_name_to_files,
           photos_name_to_files, count_media, marks, duplicates, returned, todo,
           attempts, outcome, denied, pass, fs_first, lookup, writer >>

\* No call of find_metadata_file, no file of merge_metadata under study.
Idle == [state |-> "idle"]

Init ==
  /\ missing_roots \in SUBSET {albums_directory, photos_directory}
  /\ albums_tree \in IF albums_directory \in missing_roots
                       THEN {<<>>} ELSE SeqUpTo(MediaFiles, MaxAlbumFiles)
  /\ photos_tree \in IF photos_directory \in missing_roots
                       THEN {<<>>} ELSE SeqUpTo(MediaFiles, MaxPhotoFiles)
  /\ fs = TreePaths(albums_directory, albums_tree)
            \cup TreePaths(photos_directory, photos_tree)
  /\ pc = "start"
  /\ albums_name_to_files = <<>>
  /\ photos_name_to_files = <<>>
  /\ count_media = 0
  /\ marks = <<>>
  /\ duplicates = {}
  /\ returned = << >>
  /\ todo = {}
  /\ attempts = << >>
  /\ outcome = << >>
  /\ denied = {}
  /\ pass = 0
  /\ fs_first = {}
  /\ lookup = Idle
  /\ writer = Idle

\* find_duplicates up to its return statement: both trees grouped, every
\* title of the photos grouping compared, the list de-duplicated.
FindDuplicates ==
  /\ pc = "start"
  /\ LET ga == group_files_by_name_and_metadata(albums_directory,
                   os_walk(albums_directory, albums_tree, missing_roots), fs)
         gp == group_files_by_name_and_metadata(photos_directory,
                   os_walk(photos_directory, photos_tree, missing_roots), fs)
         ms == MatchAll(ga.objs, gp.objs)
     IN  /\ ~ga.raise /\ ~gp.raise
         /\ albums_name_to_files' = ga.objs
         /\ photos_name_to_files' = gp.objs
         /\ marks' = ms
         /\ count_media' = Len(ms)
         /\ duplicates' = Dedup(Appended(ms))
         /\ returned' = ReturnedList(Appended(ms))
  /\ pc' = "matched"
  /\ UNCHANGED << albums_tree, photos_tree, missing_roots, fs, todo, attempts, outcome,
                  denied, pass, fs_first, lookup,
                  writer >>

\* An exception of json.load or of get_photo_taken_time leaves
\* find_duplicates and ends the script.
FindDuplicatesRaises ==
  /\ pc = "start"
  /\ \/ group_files_by_name_and_metadata(albums_directory,
            os_walk(albums_directory, albums_tree, missing_roots), fs).raise
     \/ group_files_by_name_and_metadata(photos_directory,
            os_walk(photos_directory, photos_tree, missing_roots), fs).raise
  /\ pc' = "raised"
  /\ UNCHANGED << albums_tree, photos_tree, missing_roots, fs, albums_name_to_files,
                  photos_name_to_files, count_media, marks, duplicates, returned,
                  todo, attempts, outcome, denied, pass, fs_first, lookup,
                  writer >>

\* find_duplicates returns and the script calls remove_duplicates(duplicates).
\* The locals of find_duplicates end here, and nothing reads the names or the
\* sidecars of the trees again: the state keeps the paths that exist.
CallRemove ==
  /\ pc = "matched"
  /\ pc' = "removing"
  /\ pass' = 1
  /\ todo' = duplicates
  /\ attempts' = [p \in duplicates |-> 0]
  /\ outcome' = [p \in duplicates |-> "none"]
  /\ albums_tree' = <<>>
  /\ photos_tree' = <<>>
  /\ albums_name_to_files' = <<>>
  /\ photos_name_to_files' = <<>>
  /\ count_media' = 0
  /\ UNCHANGED << missing_roots, fs, marks, duplicates, returned, denied,
                  fs_first, lookup,
                  writer >>

\* One iteration of "for file_path in duplicates" (the list is in no
\* particular order; an entry is passed once it was visited as often as it
\* occurs in the list).
RemoveStep ==
  /\ pc = "removing"
  /\ \E file_path \in todo :
       \E result \in os_remove(file_path, fs, denied) :
         /\ fs' = IF result = "removed" THEN fs \ {file_path} ELSE fs
         /\ denied' = IF result = "denied" THEN denied \cup {file_path} ELSE denied
         /\ attempts' = [attempts EXCEPT ![file_path] = @ + 1]
         /\ outcome' = [outcome EXCEPT ![file_path] = result]
         /\ todo' = IF /\ AfterRemove(result) = "removing"
                       /\ attempts[file_path] + 1 >= returned[file_path]
                      THEN todo \ {file_path} ELSE todo
         /\ pc' = AfterRemove(result)
  /\ UNCHANGED << albums_tree, photos_tree, missing_roots, albums_name_to_files,
                  photos_name_to_files, count_media, marks, duplicates, returned,
                  pass, fs_first, lookup,
                  writer >>

\* The loop is exhausted: remove_duplicates returns.
RemoveReturns ==
  /\ pc = "removing"
  /\ todo = {}
  /\ pc' = "done"
  /\ fs_first' = IF pass = 1 THEN fs ELSE fs_first
  /\ UNCHANGED << albums_tree, photos_tree, missing_roots, fs, albums_name_to_files,
                  photos_name_to_files, count_media, marks, duplicates, returned,
                  todo, attempts, outcome, denied, pass, lookup,
                  writer >>

Next ==
  \/ FindDuplicates
  \/ FindDuplicatesRaises
  \/ CallRemove
  \/ RemoveStep
  \/ RemoveReturns

Spec == Init /\ [][Next]_vars

\* remove_duplicates called a second time on the list the first call got.
Rerun ==
  /\ pc = "done"
  /\ pass = 1
  /\ pass' = 2
  /\ pc' = "removing"
  /\ todo' = duplicates
  /\ attempts' = [p \in duplicates |-> 0]
  /\ outcome' = [p \in duplicates |-> "none"]
  /\ UNCHANGED << albums_tree, photos_tree, missing_roots, fs, albums_name_to_files,
                  photos_name_to_files, count_media, marks, duplicates, returned,
                  denied, fs_first, lookup,
                  writer >>

NextRerun ==
  \/ FindDuplicates
  \/ FindDuplicatesRaises
  \/ CallRemove
  \/ RemoveStep
  \/ RemoveReturns
  \/ Rerun

SpecRerun == Init /\ [][NextRerun]_vars

\* ============================================================ properties
\* Vocabulary of the claims, read at pc = "matched": find_duplicates has
\* built its list and is about to return it.
TitlesOf(objs) == { objs[i].title : i \in 1..Len(objs) }
AllTitles == TitlesOf(photos_name_to_files) \cup TitlesOf(albums_name_to_files)
BothTitles == TitlesOf(photos_name_to_files) \cap TitlesOf(albums_name_to_files)
Cands(title) == FilesOf(photos_name_to_files, title)
Refs(title) == FilesOf(albums_name_to_files, title)
SeqRange(seq) == { seq[i] : i \in 1..Len(seq) }

\* A capture timestamp is present when the descriptor supplied a value;
\* "" (no descriptor) and None (no photoTakenTime) are absent.
Present(t) == t.py = "int"
Absent(t) == ~Present(t)
\* Equality of two present timestamp values.
SameTimestamp(t, u) == Present(t) /\ Present(u) /\ t.v = u.v

\* The candidate is marked duplicate: its media path is in the output.
IsMarked(c) == c.file_path \in duplicates
\* The "Duplicate found" events of one candidate.
EventsOf(c) == { n \in 1..Len(marks) : marks[n].cand = c.file_path }

\* C1 (as claimed): in a >1:1 group a candidate is marked exactly when its
\* capture timestamp equals the one of the single reference record, and a
\* candidate whose timestamp is absent is retained.
C1_ManyOneAsClaimed ==
  pc = "matched" =>
    \A title \in BothTitles :
      (Len(Cands(title)) > 1 /\ Len(Refs(title)) = 1) =>
        \A c \in SeqRange(Cands(title)) :
          /\ IsMarked(c) <=> SameTimestamp(c.photo_taken_time, Refs(title)[1].photo_taken_time)
          /\ Absent(c.photo_taken_time) => ~IsMarked(c)

\* C2 (as claimed): outside the 1:1 case a candidate whose capture timestamp
\* is absent is never marked duplicate.
C2_AbsentNeverMatches ==
  pc = "matched" =>
    \A title \in BothTitles :
      ~(Len(Cands(title)) = 1 /\ Len(Refs(title)) = 1) =>
        \A c \in SeqRange(Cands(title)) :
          Absent(c.photo_taken_time) => ~IsMarked(c)

\* C3: in a 1:1 group the single candidate is marked duplicate whatever the
\* two capture timestamps are.
C3_OneOneUnconditional ==
  pc = "matched" =>
    \A title \in BothTitles :
      (Len(Cands(title)) = 1 /\ Len(Refs(title)) = 1) =>
        /\ IsMarked(Cands(title)[1])
        /\ \E n \in EventsOf(Cands(title)[1]) : marks[n].ref = Refs(title)[1].file_path

\* A 1:1 group whose two timestamps differ, the candidate marked.
C3_Witness ==
  /\ pc = "matched"
  /\ \E title \in BothTitles :
       /\ Len(Cands(title)) = 1 /\ Len(Refs(title)) = 1
       /\ Cands(title)[1].photo_taken_time # Refs(title)[1].photo_taken_time
       /\ Present(Cands(title)[1].photo_taken_time)
       /\ IsMarked(Cands(title)[1])

C6_OutputIsCandidatePaths ==
  pc = "matched" =>
    \A p \in duplicates :
      /\ p \in TreePaths(photos_directory, photos_tree)
      /\ \E c \in SeqRange(photos_name_to_files) :
           /\ IsMarked(c)
           /\ p = c.file_path \/ (c.json_path # EmptyPath /\ p = c.json_path)

\* C7: a title found in only one of the two groupings adds no path of its
\* records to the output and is the subject of no event.
C7_OneSidedTitleAddsNothing ==
  pc = "matched" =>
    \A title \in AllTitles \ BothTitles :
      \A o \in SeqRange(Cands(title)) \cup SeqRange(Refs(title)) :
        /\ o.file_path \notin duplicates
        /\ o.json_path # EmptyPath => o.json_path \notin duplicates
        /\ \A n \in 1..Len(marks) : marks[n].cand # o.file_path /\ marks[n].ref # o.file_path

\* A title only in the photos grouping and a title only in the albums
\* grouping, beside a title that was matched.
C7_Witness ==
  /\ pc = "matched"
  /\ duplicates # {}
  /\ \E title \in AllTitles \ BothTitles : Cands(title) # <<>>
  /\ \E title \in AllTitles \ BothTitles : Refs(title) # <<>>

\* C8: no step creates a file, and a step that deletes a file is a step of
\* the removal loop deleting a path of the match set, which is the media or
\* descriptor path of a matched candidate and lies in the photos tree; so
\* grouping and matching delete nothing, and no albums file and no unmatched
\* photos file is ever deleted.
C8_OnlyMatchSetDeleted ==
  [][ /\ fs' \subseteq fs
      /\ \A p \in fs \ fs' :
           /\ pc = "removing"
           /\ p \in duplicates
           /\ p.tree = photos_directory
           /\ \E n \in 1..Len(marks) : marks[n].cand = p \/ marks[n].json = p ]_vars

\* A finished run that deleted a matched file and left an unmatched photos
\* file and an albums file in place.
C8_Witness ==
  /\ pc = "done"
  /\ \E p \in duplicates : p # EmptyPath /\ p \notin fs
  /\ \E q \in fs : q.tree = photos_directory /\ q \notin duplicates
  /\ \E r \in fs : r.tree = albums_directory

\* The os.remove results that are failures.
Failures == {"not_found", "denied"}

\* C9: within one call of remove_duplicates every path the loop has passed
\* was attempted exactly once and its result is on record, a path not yet
\* reached was not attempted, a failure leaves the loop running (the script
\* never ends on an exception once removal has begun, and the next
\* iteration can run), and when the call returns every path was attempted.
C9_EveryPathAttemptedOnce ==
  /\ pc = "raised" => pass = 0
  /\ pc \in {"removing", "done"} =>
       /\ \A p \in duplicates \ todo : attempts[p] = 1 /\ outcome[p] # "none"
       /\ \A p \in todo : attempts[p] = 0 /\ outcome[p] = "none"
       /\ \A p \in duplicates : outcome[p] = "removed" => p \notin fs
       /\ \A p \in duplicates : outcome[p] = "denied" => p \in fs
  /\ (pc = "removing" /\ todo # {}) => ENABLED RemoveStep
  /\ pc = "done" => todo = {}

\* A finished call in which one deletion failed and another path was removed.
C9_Witness ==
  /\ pc = "done"
  /\ pass = 1
  /\ \E p \in duplicates : outcome[p] = "denied"
  /\ \E p \in duplicates : outcome[p] = "not_found"
  /\ \E p \in duplicates : outcome[p] = "removed"

\* C10: a second call of remove_duplicates on the same list never raises,
\* removes nothing (the file system stays as the first call left it), and
\* records not-found for every path the first call removed.
C10_SecondRunChangesNothing ==
  pass = 2 =>
    /\ pc # "raised"
    /\ fs = fs_first
    /\ \A p \in duplicates \ todo :
         /\ outcome[p] \in Failures
         /\ p \notin fs_first => outcome[p] = "not_found"

\* A finished second call that met a path the first call had removed and a
\* path the first call could not remove.
C10_Witness ==
  /\ pass = 2
  /\ pc = "done"
  /\ \E p \in duplicates : p # EmptyPath /\ outcome[p] = "not_found"
  /\ \E p \in duplicates : outcome[p] = "denied"

\* C11: the list find_duplicates returns holds each path once, also when
\* several "Duplicate found" events appended the same path, and one call of
\* remove_duplicates attempts each path at most once.
C11_ReturnedListHasNoRepeats ==
  /\ pc \in {"matched", "removing", "done"} =>
       /\ DOMAIN returned = duplicates
       /\ \A p \in duplicates : returned[p] = 1
  /\ pc \in {"removing", "done"} => \A p \in duplicates : attempts[p] <= 1

\* A 1:>1 group whose single candidate has the timestamp of two reference
\* records: two events appended its path, the returned list holds it once.
C11_Witness ==
  /\ pc = "matched"
  /\ \E title \in BothTitles :
       /\ Len(Cands(title)) = 1 /\ Len(Refs(title)) > 1
       /\ Present(Cands(title)[1].photo_taken_time)
       /\ Cardinality(EventsOf(Cands(title)[1])) > 1
       /\ Occurrences(Appended(marks), Cands(title)[1].file_path) > 1
       /\ returned[Cands(title)[1].file_path] = 1

\* C17 (as claimed): the count find_duplicates reports equals the number of
\* distinct candidate media records marked duplicate, that is the number of
\* media paths in the returned list.
C17_CountIsDistinctCandidates ==
  pc = "matched" =>
    count_media = Cardinality({ p \in duplicates : p.kind = "media" })

\* The group key the claim C12 gives a media file: the lower-cased title of
\* its descriptor when that title is present and non-empty, otherwise the
\* lower-cased name without extension.
ClaimedKey(file) ==
  IF file.sidecar.found /\ file.sidecar.parses
       /\ file.sidecar.has_title /\ file.sidecar.title # ""
    THEN PyStr(Lower(file.sidecar.title))
    ELSE PyStr(Lower(file.name))

\* C12 (as claimed): every media record is filed under the lower-cased
\* descriptor title when present and non-empty, otherwise under the
\* lower-cased file name without extension; a file without descriptor
\* carries an absent timestamp.
C12_GroupKeyAsClaimed ==
  pc = "matched" =>
    /\ \A i \in 1..Len(photos_name_to_files) :
         /\ photos_name_to_files[i].title = ClaimedKey(photos_tree[i])
         /\ ~photos_tree[i].sidecar.found =>
              Absent(photos_name_to_files[i].photo_taken_time)
    /\ \A i \in 1..Len(albums_name_to_files) :
         /\ albums_name_to_files[i].title = ClaimedKey(albums_tree[i])
         /\ ~albums_tree[i].sidecar.found =>
              Absent(albums_name_to_files[i].photo_taken_time)

\* The media files of both trees.
AllFiles == SeqRange(albums_tree) \cup SeqRange(photos_tree)

\* C13 (as claimed): a sidecar that does not parse never ends the run: when
\* nothing else in the trees raises, the run goes on past grouping.
C13_ParseErrorContained ==
  ( /\ \E f \in AllFiles : f.sidecar.found /\ ~f.sidecar.parses
    /\ \A f \in AllFiles : f.sidecar.has_ptt => f.sidecar.has_timestamp )
  => pc # "raised"

\* C14 (as claimed): a run with a root directory that does not exist ends in
\* a fatal error before it has a matching result and before it deletes.
C14_MissingRootIsFatal ==
  (missing_roots # {} /\ pc # "start") => pc = "raised"

\* ================================================= find_metadata_file, scan
\* Largest number of sidecar candidates in the directory of the media file.
MaxListing == 2

\* A media file name: stem, optional trailing counter "(n)" (0: none), and
\* extension, as in "p.jpg" and "p(3).jpg".
MediaNames == [stem : {"p"}, counter : {0, 3}, ext : {".jpg"}]

\* A directory entry name, written stem (c1) ext text (c2) suffix, as in
\* "p.jpg.json", "P(3).JPG.meta.json", "p.jpg.meta(3).json"; c1, c2 = 0 mean
\* no counter there. The extension "\xjpg" has a backslash where the others
\* have the dot.
EntryNames ==
  { e \in [stem : {"p", "P"}, c1 : {0, 3}, ext : {"", ".jpg", ".JPG", "\\xjpg"},
           text : {"", ".meta"}, c2 : {0, 3}, suffix : {".json", ".JSON"}] :
      e.c2 # 0 => (e.ext # "" \/ e.text # "") }

\* os.listdir(directory): entries with distinct names, in any order.
Listings ==
  { l \in SeqUpTo(EntryNames, MaxListing) :
      \A i, j \in 1..Len(l) : i # j => l[i] # l[j] }

\* re.IGNORECASE equality of two name parts.
SameIgnoringCase(a, b) == Lower(a) = Lower(b)

\* Case 1, line 37: file == f"{base_name}.json" (exact, case-sensitive).
MatchesCase1(m, e) ==
  /\ e.stem = m.stem /\ e.c1 = m.counter /\ e.ext = m.ext
  /\ e.text = "" /\ e.c2 = 0

\* Case 2, lines 41-45: ^{base_name}\.[^()]+\.json$, ignoring case: the whole
\* media name, then a dot, text without parentheses, ".json".
MatchesCase2(m, e) ==
  /\ SameIgnoringCase(e.stem, m.stem) /\ e.c1 = m.counter
  /\ SameIgnoringCase(e.ext, m.ext)
  /\ e.text # "" /\ e.c2 = 0

\* Case 3, lines 50-55: ^{base_name_without_counter}\..+?\({counter}\)\.json$,
\* ignoring case, only when the media name has a counter: the stem, a dot, at
\* least one character, the counter, ".json".
MatchesCase3(m, e) ==
  /\ m.counter # 0
  /\ SameIgnoringCase(e.stem, m.stem) /\ e.c1 = 0
  /\ \/ e.ext \in {".jpg", ".JPG"}
     \/ e.ext = "" /\ e.text # ""
  /\ e.c2 = m.counter

\* Case 4, lines 60-65: ^{base_name_without_counter}\({counter}\)\{re.escape(ext)}\..+?\.json$:
\* "\" before the escaped extension makes the pattern ask for a backslash and
\* any one character in place of the extension's dot.
MatchesCase4(m, e) ==
  /\ m.counter # 0
  /\ SameIgnoringCase(e.stem, m.stem) /\ e.c1 = m.counter
  /\ e.ext = "\\xjpg" /\ m.ext = ".jpg"
  /\ e.text # ""

\* The body of the loop for one entry: does it return this entry?
MatchesAny(m, e) ==
  /\ e.suffix = ".json"
  /\ \/ MatchesCase1(m, e)
     \/ MatchesCase2(m, e)
     \/ MatchesCase3(m, e)
     \/ MatchesCase4(m, e)

\* find_metadata_file over a listing: the first entry in listing order that
\* passes any of the four cases, or None.
find_metadata_file_scan(m, listing) ==
  LET hits == { i \in 1..Len(listing) : MatchesAny(m, listing[i]) } IN
    IF hits = {} THEN [found |-> FALSE, at |-> 0]
    ELSE [found |-> TRUE, at |-> CHOOSE i \in hits : \A j \in hits : i <= j]

\* The run is not under study: its variables rest.
RunIdle ==
  /\ albums_tree = <<>> /\ photos_tree = <<>> /\ missing_roots = {}
  /\ fs = {} /\ pc = "idle"
  /\ albums_name_to_files = <<>> /\ photos_name_to_files = <<>>
  /\ count_media = 0 /\ marks = <<>> /\ duplicates = {} /\ returned = << >>
  /\ todo = {} /\ attempts = << >> /\ outcome = << >> /\ denied = {}
  /\ pass = 0 /\ fs_first = {}

run_vars == << albums_tree, photos_tree, missing_roots, fs, pc,
               albums_name_to_files, photos_name_to_files, count_media, marks,
               duplicates, returned, todo, attempts, outcome, denied, pass,
               fs_first >>

InitLookup ==
  /\ RunIdle
  /\ writer = Idle
  /\ lookup \in [state : {"called"}, media : MediaNames, listing : Listings,
                 found : {FALSE}, at : {0}]

\* find_metadata_file returns the path of an entry.
LookupReturnsFile ==
  /\ lookup.state = "called"
  /\ find_metadata_file_scan(lookup.media, lookup.listing).found
  /\ lookup' = [lookup EXCEPT !.state = "returned", !.found = TRUE,
                  !.at = find_metadata_file_scan(lookup.media, lookup.listing).at]
  /\ UNCHANGED << run_vars, writer >>

\* find_metadata_file returns None.
LookupReturnsNone ==
  /\ lookup.state = "called"
  /\ ~find_metadata_file_scan(lookup.media, lookup.listing).found
  /\ lookup' = [lookup EXCEPT !.state = "returned"]
  /\ UNCHANGED << run_vars, writer >>

NextLookup ==
  \/ LookupReturnsFile
  \/ LookupReturnsNone

SpecLookup == InitLookup /\ [][NextLookup]_vars

\* The priority of an entry for a media file: the number of the first case
\* it matches, 5 when it matches none.
CaseOf(m, e) ==
  IF e.suffix # ".json" THEN 5
  ELSE IF MatchesCase1(m, e) THEN 1
  ELSE IF MatchesCase2(m, e) THEN 2
  ELSE IF MatchesCase3(m, e) THEN 3
  ELSE IF MatchesCase4(m, e) THEN 4
  ELSE 5

\* C15 (as claimed): the four patterns are applied in priority order over
\* the whole directory: the file returned matches the highest-priority
\* pattern that any entry of the listing matches.
C15_PriorityOverDirectory ==
  (lookup.state = "returned" /\ lookup.found) =>
    \A i \in 1..Len(lookup.listing) :
      CaseOf(lookup.media, lookup.listing[lookup.at])
        <= CaseOf(lookup.media, lookup.listing[i])

\* ================================================= merge_metadata, one file
\* JSON values of photoTakenTime.timestamp and of the directory's timestamp:
\* a string of digits, a string that int() rejects, or None.
TsDigits(n) == [py |-> "str", int |-> TRUE, n |-> n]
TsNotANumber == [py |-> "str", int |-> FALSE, n |-> 0]
TsNone == [py |-> "None", int |-> FALSE, n |-> 0]

\* Truth value of a timestamp in "if timestamp:".
Truthy(ts) == ts.py # "None"

\* What get_metadata_from_json hands to the writers: {} (no sidecar, or one
\* that does not parse), or a dictionary with or without photoTakenTime,
\* whose photoTakenTime has or lacks "timestamp".
Descriptor(nonempty, has_ptt, ts) ==
  [nonempty |-> nonempty, has_ptt |-> has_ptt, timestamp |-> ts]
EmptyDescriptor == Descriptor(FALSE, FALSE, TsNone)
Descriptors ==
  { EmptyDescriptor,
    Descriptor(TRUE, FALSE, TsNone),
    Descriptor(TRUE, TRUE, TsNone),
    Descriptor(TRUE, TRUE, TsDigits(100)),
    Descriptor(TRUE, TRUE, TsNotANumber) }

\* get_photo_taken_time_from_directory: the timestamp of the first file of
\* the directory whose sidecar has photoTakenTime, or None.
DirectoryTimes == { TsNone, TsDigits(300), TsNotANumber }

\* File kinds by extension, as merge_metadata and the writers tell them apart.
PhotoExts == { ".jpg", ".png" }
TaggedVideoExts == { ".mp4" }
ConvertedVideoExts == { ".avi" }
WriterExts == PhotoExts \cup TaggedVideoExts \cup ConvertedVideoExts \cup { ".gif", ".txt" }

\* A creation time as written into the file: none, or the text
\* "%Y-%m-%d %H:%M:%S" of an epoch second.
NoCreationTime == [set |-> FALSE, fmt |-> "", epoch |-> 0]
Formatted(n) == [set |-> TRUE, fmt |-> "%Y-%m-%d %H:%M:%S", epoch |-> n]

\* parse_timestamp: datetime.fromtimestamp(int(timestamp)).strftime(...),
\* None when int() raises.
parse_timestamp(ts) == IF ts.int THEN Formatted(ts.n) ELSE NoCreationTime

\* update_photo_metadata: the result and the DateTimeOriginal written.
\* tools_ok: the image opens and saves without exception.
update_photo_metadata(metadata, directory_photo_taken_time, tools_ok) ==
  IF ~tools_ok THEN [ok |-> FALSE, written |-> NoCreationTime]
  ELSE IF metadata.nonempty /\ metadata.has_ptt
    THEN [ok |-> TRUE,
          written |-> IF Truthy(metadata.timestamp)
                      THEN parse_timestamp(metadata.timestamp)
                      ELSE NoCreationTime]
  ELSE IF Truthy(directory_photo_taken_time)
    THEN [ok |-> TRUE, written |-> parse_timestamp(directory_photo_taken_time)]
  ELSE [ok |-> FALSE, written |-> NoCreationTime]

\* update_video_metadata: the result and the creation time written ("\xa9day"
\* for .mp4/.mov, creation_time/CreateDate for the converted formats). The
\* function is not given the directory's timestamp.
update_video_metadata(ext, metadata, tools_ok) ==
  IF ~tools_ok THEN [ok |-> FALSE, written |-> NoCreationTime]
  ELSE [ok |-> TRUE,
        written |-> IF metadata.nonempty /\ metadata.has_ptt /\ Truthy(metadata.timestamp)
                    THEN parse_timestamp(metadata.timestamp)
                    ELSE NoCreationTime]

InitWriter ==
  /\ RunIdle
  /\ lookup = Idle
  /\ writer \in [state : {"file"}, ext : WriterExts, metadata : Descriptors,
                 directory_photo_taken_time : DirectoryTimes,
                 tools_ok : BOOLEAN,
                 written : {NoCreationTime}, counted : {""}]

\* Line 402 false: neither a descriptor nor a directory timestamp.
MergeNoTimestampSource ==
  /\ writer.state = "file"
  /\ ~(writer.metadata.nonempty \/ Truthy(writer.directory_photo_taken_time))
  /\ writer' = [writer EXCEPT !.state = "handled", !.counted = "unprocessed"]
  /\ UNCHANGED << run_vars, lookup >>

\* Lines 403-413: a photo.
MergePhoto ==
  /\ writer.state = "file"
  /\ writer.metadata.nonempty \/ Truthy(writer.directory_photo_taken_time)
  /\ writer.ext \in PhotoExts
  /\ LET r == update_photo_metadata(writer.metadata,
                writer.directory_photo_taken_time, writer.tools_ok)
     IN writer' = [writer EXCEPT !.state = "handled", !.written = r.written,
                     !.counted = IF r.ok THEN "updated" ELSE "unprocessed"]
  /\ UNCHANGED << run_vars, lookup >>

\* Lines 415-421: a video.
MergeVideo ==
  /\ writer.state = "file"
  /\ writer.metadata.nonempty \/ Truthy(writer.directory_photo_taken_time)
  /\ writer.ext \in TaggedVideoExts \cup ConvertedVideoExts
  /\ LET r == update_video_metadata(writer.ext, writer.metadata, writer.tools_ok)
     IN writer' = [writer EXCEPT !.state = "handled", !.written = r.written,
                     !.counted = IF r.ok THEN "updated" ELSE "unprocessed"]
  /\ UNCHANGED << run_vars, lookup >>

\* Lines 423-426: a .gif is counted as updated and left as it is.
MergeGif ==
  /\ writer.state = "file"
  /\ writer.metadata.nonempty \/ Truthy(writer.directory_photo_taken_time)
  /\ writer.ext = ".gif"
  /\ writer' = [writer EXCEPT !.state = "handled", !.counted = "updated"]
  /\ UNCHANGED << run_vars, lookup >>

\* Lines 428-430: any other extension.
MergeUnsupported ==
  /\ writer.state = "file"
  /\ writer.metadata.nonempty \/ Truthy(writer.directory_photo_taken_time)
  /\ writer.ext \notin PhotoExts \cup TaggedVideoExts \cup ConvertedVideoExts \cup {".gif"}
  /\ writer' = [writer EXCEPT !.state = "handled", !.counted = "unprocessed"]
  /\ UNCHANGED << run_vars, lookup >>

NextWriter ==
  \/ MergeNoTimestampSource
  \/ MergePhoto
  \/ MergeVideo
  \/ MergeGif
  \/ MergeUnsupported

SpecWriter == InitWriter /\ [][NextWriter]_vars

\* The timestamp the claim says is embedded: the descriptor's when it has
\* one, otherwise the directory's.
ClaimedTimestamp ==
  IF writer.metadata.nonempty /\ writer.metadata.has_ptt
       /\ Truthy(writer.metadata.timestamp)
  THEN writer.metadata.timestamp
  ELSE writer.directory_photo_taken_time

\* C16 (as claimed): for a photo or a video that the writer handled with its
\* tools working, the creation time written is the descriptor's capture
\* timestamp, or the directory's timestamp when the descriptor has none
\* (no photoTakenTime, or a photoTakenTime without timestamp).
C16_WriterUsesDescriptorOrFallback ==
  ( /\ writer.state = "handled"
    /\ writer.ext \in PhotoExts \cup TaggedVideoExts \cup ConvertedVideoExts
    /\ writer.tools_ok
    /\ Truthy(ClaimedTimestamp) )
  => writer.written = parse_timestamp(ClaimedTimestamp)

====
